---- MODULE Spec2Model ----
(***************************************************************************)
(* Model of podcastfy's TemplateLoader (template_reader.py) and            *)
(* PDFExtractor (content_parser/pdf_extractor.py).                         *)
(*                                                                         *)
(* Strings are sequences of one-character strings, so that slicing,        *)
(* searching, splitting and formatting are computed character by           *)
(* character as the Python code computes them.                             *)
(***************************************************************************)
EXTENDS Integers, Sequences, FiniteSets, TLC

VARIABLES
    template_cache,   \* TemplateLoader.template_cache: basename -> content
    self_template,    \* TemplateLoader.template, set by fill_template
    fs,               \* the file system: path -> [exists, content]
    call,             \* the last TemplateLoader call and its outcome
    first_load,       \* history: basename -> content of its first successful load
    doc,              \* the PDF document on disk: its page texts
    handles,          \* number of pymupdf documents opened and not closed
    ecall,            \* the last PDFExtractor call and its outcome
    results           \* per remove_refs flag, the text last returned for doc

vars == <<template_cache, self_template, fs, call, first_load,
          doc, handles, ecall, results>>

storeVars == <<template_cache, self_template, fs, call, first_load>>
extractVars == <<doc, handles, ecall, results>>

----------------------------------------------------------------------------
(* Bounds *)

MaxFillLen == 6      \* longest template given to fill_template
MaxFlatLen == 6      \* longest file content given to get_template
MaxChunks == 4       \* most chunks in a text given to _ref_cleaner
MaxPages == 2        \* most pages in a document
MaxHandles == 2      \* most leaked handles tracked

----------------------------------------------------------------------------
(* Strings *)

Whitespace == {" ", "\n", "\t"}

IsSpace(c) == c \in Whitespace

Slice(s, a, b) == IF b < a THEN <<>> ELSE SubSeq(s, a, b)

SetMin(S) == CHOOSE m \in S : \A n \in S : m <= n

SetMax(S) == CHOOSE m \in S : \A n \in S : m >= n

\* all strings over alphabet A of length at most n
StringsUpTo(A, n) == UNION {[1..k -> A] : k \in 0..n}

\* str.strip(): drop the whitespace at both ends
Strip(s) ==
    LET nonws == {i \in 1..Len(s) : ~IsSpace(s[i])}
    IN  IF nonws = {} THEN <<>> ELSE Slice(s, SetMin(nonws), SetMax(nonws))

\* str.endswith(suffix)
EndsWith(s, suffix) ==
    /\ Len(s) >= Len(suffix)
    /\ Slice(s, Len(s) - Len(suffix) + 1, Len(s)) = suffix

\* str.replace(old, new) for the one-character new string used by the code:
\* non-overlapping occurrences of old, scanned left to right
RECURSIVE ReplaceFrom(_, _, _, _)
ReplaceFrom(s, i, old, new) ==
    IF i > Len(s) THEN <<>>
    ELSE IF i + Len(old) - 1 <= Len(s) /\ Slice(s, i, i + Len(old) - 1) = old
         THEN new \o ReplaceFrom(s, i + Len(old), old, new)
         ELSE <<s[i]>> \o ReplaceFrom(s, i + 1, old, new)

Replace(s, old, new) == ReplaceFrom(s, 1, old, new)

\* str.split() without arguments: the maximal runs of non-whitespace
RECURSIVE SplitFrom(_, _)
SplitFrom(s, i) ==
    IF i > Len(s) THEN <<>>
    ELSE IF IsSpace(s[i]) THEN SplitFrom(s, i + 1)
    ELSE LET stops == {j \in i..Len(s) : IsSpace(s[j])}
             e == IF stops = {} THEN Len(s) + 1 ELSE SetMin(stops)
         IN  <<Slice(s, i, e - 1)>> \o SplitFrom(s, e)

Split(s) == SplitFrom(s, 1)

\* sep.join(words)
RECURSIVE Join(_, _)
Join(sep, words) ==
    IF Len(words) = 0 THEN <<>>
    ELSE IF Len(words) = 1 THEN words[1]
    ELSE words[1] \o sep \o Join(sep, Tail(words))

\* s.rfind(c), 1-based, 0 when c does not occur
RFind(s, c) ==
    LET hits == {i \in 1..Len(s) : s[i] = c}
    IN  IF hits = {} THEN 0 ELSE SetMax(hits)

----------------------------------------------------------------------------
(* Paths *)

\* os.path.basename(p): what follows the last separator
PathBasename(p) == Slice(p, RFind(p, "/") + 1, Len(p))

\* os.path.splitext(name)[0] for a name without separator: cut at the last
\* dot unless only dots precede it
SplitextRoot(name) ==
    LET d == RFind(name, ".")
    IN  IF d > 0 /\ \E i \in 1..(d - 1) : name[i] # "."
        THEN Slice(name, 1, d - 1)
        ELSE name

\* line 20: basename = os.path.splitext(os.path.basename(template_path))[0]
Basename(template_path) == SplitextRoot(PathBasename(template_path))

\* variant: .pdf accepted as a template extension
HasTemplateExt_pdf(template_path) ==
    \/ EndsWith(template_path, <<".", "m", "d">>)
    \/ EndsWith(template_path, <<".", "t", "x", "t">>)
    \/ EndsWith(template_path, <<".", "p", "d", "f">>)

\* line 29: template_path.endswith(('.md', '.txt'))
HasTemplateExt(template_path) ==
    \/ EndsWith(template_path, <<".", "m", "d">>)
    \/ EndsWith(template_path, <<".", "t", "x", "t">>)

Paths ==
    { <<"d", "/", "a", ".", "m", "d">>,
      <<"e", "/", "a", ".", "m", "d">>,
      <<"d", "/", "a", ".", "p", "d", "f">>,
      <<"d", "/", "b", ".", "t", "x", "t">> }

Contents ==
    { <<>>, <<"a", "\n", "\n", "b">> }

NoFile == [exists |-> FALSE, content |-> <<>>]

File(c) == [exists |-> TRUE, content |-> c]

EmptyMap == [b \in {} |-> <<>>]

Put(m, k, v) == [b \in DOMAIN m \cup {k} |-> IF b = k THEN v ELSE m[b]]

----------------------------------------------------------------------------
(* TemplateLoader *)

\* variant: the cache is never consulted
CacheHit_never(cache, basename) == FALSE

\* line 22: basename in self.template_cache
CacheHit(cache, basename) == basename \in DOMAIN cache

\* variant: a failed read leaves an empty entry in the cache
load_result_cache_failed(cache, files, template_path, read_fails) ==
    LET basename == Basename(template_path)
    IN  IF basename \in DOMAIN cache
        THEN [ret |-> cache[basename], cache |-> cache,
              touched_fs |-> FALSE, read_failed |-> FALSE, raised |-> FALSE]
        ELSE IF ~files[template_path].exists \/ ~HasTemplateExt(template_path)
        THEN [ret |-> <<>>, cache |-> cache,
              touched_fs |-> TRUE, read_failed |-> FALSE, raised |-> FALSE]
        ELSE IF read_fails
        THEN [ret |-> <<>>, cache |-> Put(cache, basename, <<>>),
              touched_fs |-> TRUE, read_failed |-> TRUE, raised |-> FALSE]
        ELSE [ret |-> files[template_path].content,
              cache |-> Put(cache, basename, files[template_path].content),
              touched_fs |-> TRUE, read_failed |-> FALSE, raised |-> FALSE]

\* load_content: the value returned, the cache afterwards, and whether the
\* call looked at the file system, failed to read the file, or raised.
\* read_fails says whether open()/read() raises when this call reaches it.
load_result(cache, files, template_path, read_fails) ==
    LET basename == Basename(template_path)
    IN  IF CacheHit(cache, basename)
        THEN [ret |-> cache[basename], cache |-> cache,
              touched_fs |-> FALSE, read_failed |-> FALSE, raised |-> FALSE]
        ELSE IF ~files[template_path].exists
        THEN [ret |-> <<>>, cache |-> cache,
              touched_fs |-> TRUE, read_failed |-> FALSE, raised |-> FALSE]
        ELSE IF ~HasTemplateExt(template_path)
        THEN [ret |-> <<>>, cache |-> cache,
              touched_fs |-> TRUE, read_failed |-> FALSE, raised |-> FALSE]
        ELSE IF read_fails
        THEN [ret |-> <<>>, cache |-> cache,
              touched_fs |-> TRUE, read_failed |-> TRUE, raised |-> FALSE]
        ELSE [ret |-> files[template_path].content,
              cache |-> Put(cache, basename, files[template_path].content),
              touched_fs |-> TRUE, read_failed |-> FALSE, raised |-> FALSE]

\* variant: whitespace runs are not collapsed
Flatten_no_split(template) ==
    Strip(Replace(template, <<"\n", "\n">>, <<"\n">>))

\* lines 75-77: the flattening of get_template
Flatten(template) ==
    LET formatted1 == Replace(template, <<"\n", "\n">>, <<"\n">>)
        formatted2 == Join(<<" ">>, Split(formatted1))
    IN  Strip(formatted2)

FormatOk(out) == [err |-> "none", out |-> out]

FormatErr(kind) == [err |-> kind, out |-> <<>>]

\* variant: an exception in the rest leaves the text produced so far
FormatThen_partial(text, rest) ==
    IF rest.err = "none" THEN FormatOk(text \o rest.out) ELSE FormatOk(text)

\* the text produced so far followed by what the rest of the template
\* produces; an exception in the rest leaves no text
FormatThen(text, rest) ==
    IF rest.err = "none" THEN FormatOk(text \o rest.out) ELSE rest

\* str.format(**data) from position i of the template: literal text is
\* copied, {{ and }} give one brace, {name} gives data[name]; a lone brace
\* or a brace inside a field raises ValueError, an empty field name is
\* positional and raises IndexError, a missing name raises KeyError
RECURSIVE FormatFrom(_, _, _)
FormatFrom(template, i, data) ==
    IF i > Len(template) THEN FormatOk(<<>>)
    ELSE IF template[i] = "}"
    THEN IF i < Len(template) /\ template[i + 1] = "}"
         THEN FormatThen(<<"}">>, FormatFrom(template, i + 2, data))
         ELSE FormatErr("ValueError")
    ELSE IF template[i] = "{"
    THEN IF i = Len(template) THEN FormatErr("ValueError")
         ELSE IF template[i + 1] = "{"
         THEN FormatThen(<<"{">>, FormatFrom(template, i + 2, data))
         ELSE LET braces == {j \in (i + 1)..Len(template) :
                                template[j] \in {"{", "}"}}
                  e == IF braces = {} THEN 0 ELSE SetMin(braces)
                  name == Slice(template, i + 1, e - 1)
              IN  IF e = 0 \/ template[e] = "{" THEN FormatErr("ValueError")
                  ELSE IF name = <<>> THEN FormatErr("IndexError")
                  ELSE IF name \notin DOMAIN data THEN FormatErr("KeyError")
                  ELSE FormatThen(data[name],
                                  FormatFrom(template, e + 1, data))
    ELSE FormatThen(<<template[i]>>, FormatFrom(template, i + 1, data))

\* fill_template: the value returned, self.template afterwards, and whether
\* the call raised
fill_result(old_template, template, data) ==
    LET f == FormatFrom(template, 1, data)
    IN  IF f.err = "none"
        THEN [ret |-> f.out, self_template |-> [set |-> TRUE, val |-> f.out],
              raised |-> FALSE]
        ELSE [ret |-> template, self_template |-> old_template,
              raised |-> FALSE]

\* the record of a call: its arguments, the state it started from (file is
\* the file at its path), what it returned and what it did
NoCall ==
    [op |-> "none", path |-> <<>>, template |-> <<>>, data |-> EmptyMap,
     read_failed |-> FALSE, ret |-> <<>>, loaded |-> <<>>, raised |-> FALSE,
     touched_fs |-> FALSE, file |-> NoFile, cache_before |-> EmptyMap,
     first_before |-> EmptyMap]

\* history: the content a basename had when it was first loaded successfully
RecordFirst(first, cache_before, r, template_path) ==
    IF r.cache # cache_before /\ Basename(template_path) \notin DOMAIN first
    THEN Put(first, Basename(template_path), r.ret)
    ELSE first

load_content(template_path, read_fails) ==
    LET r == load_result(template_cache, fs, template_path, read_fails)
    IN  /\ template_cache' = r.cache
        /\ first_load' = RecordFirst(first_load, template_cache, r,
                                     template_path)
        /\ call' = [NoCall EXCEPT !.op = "load", !.path = template_path,
                        !.read_failed = r.read_failed, !.ret = r.ret,
                        !.loaded = r.ret, !.raised = r.raised,
                        !.touched_fs = r.touched_fs,
                        !.file = fs[template_path],
                        !.cache_before = template_cache,
                        !.first_before = first_load]
        /\ UNCHANGED <<self_template, fs>>

fill_template(template, data) ==
    LET r == fill_result(self_template, template, data)
    IN  /\ self_template' = r.self_template
        /\ call' = [NoCall EXCEPT !.op = "fill", !.template = template,
                        !.data = data, !.ret = r.ret, !.raised = r.raised,
                        !.cache_before = template_cache,
                        !.first_before = first_load]
        /\ UNCHANGED <<template_cache, first_load, fs>>

get_template(template_type, read_fails) ==
    LET r == load_result(template_cache, fs, template_type, read_fails)
    IN  /\ template_cache' = r.cache
        /\ first_load' = RecordFirst(first_load, template_cache, r,
                                     template_type)
        /\ call' = [NoCall EXCEPT !.op = "get", !.path = template_type,
                        !.read_failed = r.read_failed, !.ret = Flatten(r.ret),
                        !.loaded = r.ret, !.raised = r.raised,
                        !.touched_fs = r.touched_fs,
                        !.file = fs[template_type],
                        !.cache_before = template_cache,
                        !.first_before = first_load]
        /\ UNCHANGED <<self_template, fs>>

\* the environment creates, rewrites or deletes a template file
FsWrite(path, content) ==
    /\ fs[path] # File(content)
    /\ fs' = [fs EXCEPT ![path] = File(content)]
    /\ UNCHANGED <<template_cache, self_template, call, first_load>>

FsDelete(path) ==
    /\ fs[path].exists
    /\ fs' = [fs EXCEPT ![path] = NoFile]
    /\ UNCHANGED <<template_cache, self_template, call, first_load>>

----------------------------------------------------------------------------
(* PDFExtractor *)

UpperLetters ==
    <<"A", "B", "C", "D", "E", "F", "G", "H", "I", "J", "K", "L", "M",
      "N", "O", "P", "Q", "R", "S", "T", "U", "V", "W", "X", "Y", "Z">>

LowerLetters ==
    <<"a", "b", "c", "d", "e", "f", "g", "h", "i", "j", "k", "l", "m",
      "n", "o", "p", "q", "r", "s", "t", "u", "v", "w", "x", "y", "z">>

\* case folding of re.IGNORECASE
Lower(c) ==
    IF \E i \in 1..26 : UpperLetters[i] = c
    THEN LowerLetters[CHOOSE i \in 1..26 : UpperLetters[i] = c]
    ELSE c

\* \w of the regular expressions
IsWordChar(c) == \E i \in 1..26 : c \in {UpperLetters[i], LowerLetters[i]}

\* unicodedata.normalize('NFKD', c) of one character: an accented letter is
\* decomposed into the letter and a combining mark, a no-break space becomes
\* a space
Decompose(c) ==
    IF c = "e-acute" THEN <<"e", "combining-acute">>
    ELSE IF c = "nbsp" THEN <<" ">>
    ELSE <<c>>

\* line 35: unicodedata.normalize('NFKD', content)
RECURSIVE Normalize(_)
Normalize(content) ==
    IF content = <<>> THEN <<>>
    ELSE Decompose(Head(content)) \o Normalize(Tail(content))

\* Positions are 0-based offsets into text, as in Python; the character at
\* offset p is text[p + 1].  Each After... operator takes the set of offsets
\* the match may have reached and gives the offsets after the next element
\* of the regular expression.

\* (?:^|\n)
AfterAnchor(text, pos) ==
    (IF pos = 0 THEN {pos} ELSE {})
    \cup (IF pos < Len(text) /\ text[pos + 1] = "\n" THEN {pos + 1} ELSE {})

\* the offsets reachable from p over whitespace only
RECURSIVE SpacesFrom(_, _)
SpacesFrom(text, p) ==
    IF p < Len(text) /\ IsSpace(text[p + 1])
    THEN {p} \cup SpacesFrom(text, p + 1)
    ELSE {p}

\* \s*
AfterSpaces(text, P) == UNION {SpacesFrom(text, p) : p \in P}

\* a literal, compared case-insensitively
AfterLiteral(text, P, literal) ==
    {p + Len(literal) : p \in
        {p \in P : /\ p + Len(literal) <= Len(text)
                   /\ \A j \in 1..Len(literal) :
                         Lower(text[p + j]) = Lower(literal[j])}}

\* literal?
AfterOptional(text, P, literal) == P \cup AfterLiteral(text, P, literal)

\* \b
AfterBoundary(text, P) ==
    {p \in P :
        (p > 0 /\ IsWordChar(text[p])) # (p < Len(text) /\ IsWordChar(text[p + 1]))}

\* [:\s\n]
AfterDelimiter(text, P) ==
    {p + 1 : p \in {p \in P : p < Len(text)
                               /\ (text[p + 1] = ":" \/ IsSpace(text[p + 1]))}}

REFERENCE == <<"R", "e", "f", "e", "r", "e", "n", "c", "e">>

BIBLIOGRAPHY == <<"B", "i", "b", "l", "i", "o", "g", "r", "a", "p", "h", "y">>

LITERATURE == <<"L", "i", "t", "e", "r", "a", "t", "u", "r", "e", " ", "c", "i", "t", "e", "d">>

WORKS == <<"W", "o", "r", "k", "s", " ", "c", "i", "t", "e", "d">>

\* lines 61-66: (?:^|\n)\s*<header><optional>\b[:\s\n]
ref_patterns ==
    << [header |-> REFERENCE, optional |-> <<"s">>],
       [header |-> BIBLIOGRAPHY, optional |-> <<>>],
       [header |-> LITERATURE, optional |-> <<>>],
       [header |-> WORKS, optional |-> <<>>] >>

\* re.match(pattern, text, re.IGNORECASE) tried at offset pos
MatchesAt(pattern, text, pos) ==
    AfterDelimiter(text,
      AfterBoundary(text,
        AfterOptional(text,
          AfterLiteral(text,
            AfterSpaces(text, AfterAnchor(text, pos)),
            pattern.header),
          pattern.optional))) # {}

NoMatch == -1

\* re.search(pattern, text, re.IGNORECASE): the start of the leftmost match
Search(pattern, text) ==
    LET starts == {pos \in 0..Len(text) : MatchesAt(pattern, text, pos)}
    IN  IF starts = {} THEN NoMatch ELSE SetMin(starts)

\* variant: the last pattern that matches decides
UpdateMin_last(match, min_pos) ==
    IF match # NoMatch THEN match ELSE min_pos

\* lines 72-73: if match and match.start() < min_pos: min_pos = match.start()
UpdateMin(match, min_pos) ==
    IF match # NoMatch /\ match < min_pos THEN match ELSE min_pos

\* line 71: the match of each pattern, in the order of the patterns
Matches(patterns, text) ==
    [k \in 1..Len(patterns) |-> Search(patterns[k], text)]

\* lines 70-73: the loop, from the k-th pattern on, over the matches
RECURSIVE MinPosLoop(_, _, _)
MinPosLoop(matches, k, min_pos) ==
    IF k > Len(matches) THEN min_pos
    ELSE MinPosLoop(matches, k + 1, UpdateMin(matches[k], min_pos))

\* variant: the search starts from offset 0 instead of the end of the text
MinPos_zero(patterns, text) == MinPosLoop(Matches(patterns, text), 1, 0)

\* lines 69-73: min_pos when the loop ends
MinPos(patterns, text) == MinPosLoop(Matches(patterns, text), 1, Len(text))

\* line 76: text[:min_pos].strip()
ref_cleaner_result(text) == Strip(Slice(text, 1, MinPos(ref_patterns, text)))

\* variant: a failure while reading a page is swallowed and the text of the
\* pages read so far is returned
extract_result_swallow(pages, remove_refs, fail_at) ==
    IF fail_at = 0
    THEN [raised |-> TRUE, returned |-> FALSE, ret |-> <<>>, leaked |-> FALSE]
    ELSE LET read == IF fail_at \in 1..Len(pages)
                     THEN Slice(pages, 1, fail_at - 1) ELSE pages
             normalized_content == Normalize(Join(<<" ">>, read))
         IN  [raised |-> FALSE, returned |-> TRUE,
              ret |-> IF remove_refs THEN ref_cleaner_result(normalized_content)
                      ELSE normalized_content,
              leaked |-> FALSE]

\* extract_content: fail_at = 0 when pymupdf.open raises, k >= 1 when
\* get_text raises on the k-th page, -1 when nothing fails.  leaked says
\* that the document was opened and doc.close() was not reached.
extract_result(pages, remove_refs, fail_at) ==
    IF fail_at = 0
    THEN [raised |-> TRUE, returned |-> FALSE, ret |-> <<>>, leaked |-> FALSE]
    ELSE IF fail_at \in 1..Len(pages)
    THEN [raised |-> TRUE, returned |-> FALSE, ret |-> <<>>, leaked |-> TRUE]
    ELSE LET content == Join(<<" ">>, pages)
             normalized_content == Normalize(content)
         IN  [raised |-> FALSE, returned |-> TRUE,
              ret |-> IF remove_refs THEN ref_cleaner_result(normalized_content)
                      ELSE normalized_content,
              leaked |-> FALSE]

NoExtract ==
    [op |-> "none", remove_refs |-> FALSE, fail_at |-> -1, text |-> <<>>,
     raised |-> FALSE, returned |-> FALSE, ret |-> <<>>, min_pos |-> 0,
     handles_before |-> 0]

NoText == [has |-> FALSE, text |-> <<>>]

NoResults == [flag \in BOOLEAN |-> NoText]

extract_content(remove_refs, fail_at) ==
    LET r == extract_result(doc, remove_refs, fail_at)
        open == IF r.leaked THEN 1 ELSE 0
    IN  /\ handles + open <= MaxHandles
        /\ handles' = handles + open
        /\ ecall' = [NoExtract EXCEPT !.op = "extract",
                        !.remove_refs = remove_refs, !.fail_at = fail_at,
                        !.raised = r.raised, !.returned = r.returned,
                        !.ret = r.ret, !.handles_before = handles]
        /\ results' = IF r.returned
                      THEN [results EXCEPT ![remove_refs] =
                                [has |-> TRUE, text |-> r.ret]]
                      ELSE results
        /\ UNCHANGED doc

ref_cleaner(text) ==
    /\ ecall' = [NoExtract EXCEPT !.op = "ref_cleaner", !.text = text,
                    !.returned = TRUE, !.ret = ref_cleaner_result(text),
                    !.min_pos = MinPos(ref_patterns, text),
                    !.handles_before = handles]
    /\ UNCHANGED <<doc, handles, results>>

----------------------------------------------------------------------------
(* Specifications *)

StoreTemplates ==
    { <<"x", "{", "k", "}">>, <<"{", "j", "}">> }

StoreData ==
    { EmptyMap, [n \in {<<"k">>} |-> <<"v">>] }

ExtractIdle ==
    /\ doc = <<>>
    /\ handles = 0
    /\ ecall = NoExtract
    /\ results = NoResults

StoreInit ==
    /\ template_cache = EmptyMap
    /\ self_template = [set |-> FALSE, val |-> <<>>]
    /\ fs \in [Paths -> {NoFile} \cup {File(c) : c \in Contents}]
    /\ call = NoCall
    /\ first_load = EmptyMap

Init ==
    /\ StoreInit
    /\ ExtractIdle

Next ==
    \/ \E p \in Paths, f \in BOOLEAN :
          load_content(p, f) /\ UNCHANGED extractVars
    \/ \E t \in StoreTemplates, d \in StoreData :
          fill_template(t, d) /\ UNCHANGED extractVars
    \/ \E p \in Paths, f \in BOOLEAN :
          get_template(p, f) /\ UNCHANGED extractVars
    \/ \E p \in Paths, c \in Contents :
          FsWrite(p, c) /\ UNCHANGED extractVars
    \/ \E p \in Paths :
          FsDelete(p) /\ UNCHANGED extractVars

Spec == Init /\ [][Next]_vars

----------------------------------------------------------------------------
(* Properties of TemplateLoader *)

\* the last call was a load_content call, made directly or by get_template
IsLoad == call.op \in {"load", "get"}

EndsInMdOrTxt(path) ==
    \E suffix \in {<<".", "m", "d">>, <<".", "t", "x", "t">>} :
        /\ Len(path) >= Len(suffix)
        /\ \A i \in 1..Len(suffix) :
              path[Len(path) - Len(suffix) + i] = suffix[i]

\* the file name of a path without its last extension
NameOf(path) ==
    LET seps == {i \in 1..Len(path) : path[i] = "/"}
        from == IF seps = {} THEN 1 ELSE SetMax(seps) + 1
        dots == {i \in (from + 1)..Len(path) : path[i] = "."}
        to == IF dots = {} THEN Len(path) ELSE SetMax(dots) - 1
    IN  [i \in 1..(to - from + 1) |-> path[from + i - 1]]

\* C2 as stated: every load_content call on a path that does not end in .md
\* or .txt returns the empty string, whether or not the file exists.
C2_AsStated ==
    (IsLoad /\ ~EndsInMdOrTxt(call.path)) => call.loaded = <<>>

\* C2 (amended): every load_content call on a path that does not end in .md
\* or .txt and whose basename is not in the cache when the call starts
\* returns the empty string, whether or not the file exists.
C2_BadExtensionUncached ==
    (/\ IsLoad
     /\ ~EndsInMdOrTxt(call.path)
     /\ NameOf(call.path) \notin DOMAIN call.cache_before)
    => call.loaded = <<>>

\* a load of an existing, non-empty .pdf file with nothing cached returned ""
C2_Witness ==
    /\ IsLoad
    /\ ~EndsInMdOrTxt(call.path)
    /\ NameOf(call.path) \notin DOMAIN call.cache_before
    /\ call.file.exists
    /\ call.file.content # <<>>
    /\ ~call.read_failed
    /\ call.loaded = <<>>

\* C3: once a basename has been loaded successfully, every later
\* load_content call with a path of that basename returns the content of
\* that first load and does not look at the file system, even if the file
\* was deleted or changed in between.
C3_CachedLoadRepeats ==
    (IsLoad /\ NameOf(call.path) \in DOMAIN call.first_before)
    => /\ call.loaded = call.first_before[NameOf(call.path)]
       /\ ~call.touched_fs

\* a later load of a basename whose file was deleted or changed since
C3_Witness ==
    /\ IsLoad
    /\ NameOf(call.path) \in DOMAIN call.first_before
    /\ call.file # File(call.first_before[NameOf(call.path)])
    /\ EndsInMdOrTxt(call.path)
    /\ call.loaded # <<>>

\* C4: the cache only grows: a basename once present is never removed and
\* its content never changes, and the cache holds for every basename the
\* content of its first successful load.
C4_CacheOnlyGrows ==
    /\ [](template_cache = first_load)
    /\ [][\A b \in DOMAIN template_cache :
             /\ b \in DOMAIN template_cache'
             /\ template_cache'[b] = template_cache[b]]_vars

\* two files of one basename in different directories with different
\* content; the second was loaded and the cache holds the first
C4_Witness ==
    /\ IsLoad
    /\ NameOf(call.path) \in DOMAIN call.cache_before
    /\ EndsInMdOrTxt(call.path)
    /\ call.file.exists
    /\ call.file.content # template_cache[NameOf(call.path)]
    /\ \E p \in Paths :
          /\ p # call.path
          /\ NameOf(p) = NameOf(call.path)
          /\ fs[p] = File(template_cache[NameOf(p)])

\* the call found nothing cached and could not load the file
LoadFailed ==
    /\ IsLoad
    /\ NameOf(call.path) \notin DOMAIN call.cache_before
    /\ \/ ~call.file.exists
       \/ ~EndsInMdOrTxt(call.path)
       \/ call.read_failed

\* C5: a load_content call that fails (file missing, extension other than
\* .md/.txt, error while reading) returns the empty string, raises nothing
\* and leaves the cache as it was; an entry is added only when the file
\* content was read successfully, and it is that content.
C5_FailedLoadLeavesCache ==
    /\ LoadFailed =>
          /\ call.loaded = <<>>
          /\ ~call.raised
          /\ template_cache = call.cache_before
    /\ (IsLoad /\ template_cache # call.cache_before) =>
          /\ call.file.exists
          /\ ~call.read_failed
          /\ call.loaded = call.file.content
          /\ template_cache =
                Put(call.cache_before, NameOf(call.path), call.file.content)

\* a read error on an existing .md/.txt file, after another basename was
\* cached
C5_Witness ==
    /\ LoadFailed
    /\ call.file.exists
    /\ call.file.content # <<>>
    /\ EndsInMdOrTxt(call.path)
    /\ call.read_failed
    /\ call.cache_before # EmptyMap
    /\ template_cache = call.cache_before

----------------------------------------------------------------------------
(* fill_template on every template up to MaxFillLen *)

FillAlphabet == {"{", "}", "k", "j"}

FillData ==
    { EmptyMap,
      [n \in {<<"k">>} |-> <<"v">>],
      [n \in {<<"k">>, <<"j">>} |-> IF n = <<"k">> THEN <<"v">> ELSE <<"{">>] }

InitFill ==
    /\ template_cache = EmptyMap
    /\ self_template = [set |-> FALSE, val |-> <<>>]
    /\ fs = [p \in Paths |-> NoFile]
    /\ first_load = EmptyMap
    /\ \E t \in StringsUpTo(FillAlphabet, MaxFillLen), d \in FillData :
          call = [NoCall EXCEPT !.op = "pending", !.template = t, !.data = d]
    /\ ExtractIdle

NextFill ==
    /\ call.op = "pending"
    /\ fill_template(call.template, call.data)
    /\ UNCHANGED extractVars

SpecFill == InitFill /\ [][NextFill]_vars

\* the placeholders of a template: {name} with a name free of braces
IsPlaceholder(t, i, e) ==
    /\ i < e - 1
    /\ t[i] = "{"
    /\ t[e] = "}"
    /\ \A j \in (i + 1)..(e - 1) : t[j] \notin {"{", "}"}

PlaceholderNames(t) ==
    {Slice(t, i + 1, e - 1) : <<i, e>> \in
        {x \in (1..Len(t)) \X (1..Len(t)) : IsPlaceholder(t, x[1], x[2])}}

\* every placeholder replaced by its entry, everything else kept
RECURSIVE SubstituteFrom(_, _, _)
SubstituteFrom(t, i, data) ==
    IF i > Len(t) THEN <<>>
    ELSE LET ends == {e \in i..Len(t) : IsPlaceholder(t, i, e)}
         IN  IF ends = {} THEN <<t[i]>> \o SubstituteFrom(t, i + 1, data)
             ELSE data[Slice(t, i + 1, SetMin(ends) - 1)]
                     \o SubstituteFrom(t, SetMin(ends) + 1, data)

RECURSIVE Pieces(_, _)
Pieces(t, i) ==
    IF i > Len(t) THEN <<>>
    ELSE LET closing == {e \in (i + 1)..Len(t) :
                            /\ t[i] = "{"
                            /\ t[e] = "}"
                            /\ \A j \in (i + 1)..(e - 1) : t[j] \notin {"{", "}"}}
             n == IF i < Len(t) /\ t[i] \in {"{", "}"} /\ t[i + 1] = t[i] THEN 2
                  ELSE IF closing # {} THEN SetMin(closing) - i + 1
                  ELSE 1
         IN  <<Slice(t, i, i + n - 1)>> \o Pieces(t, i + n)

IsField(piece) == Len(piece) >= 2 /\ piece[1] = "{" /\ piece[Len(piece)] = "}"

FieldName(piece) == Slice(piece, 2, Len(piece) - 1)

\* no lone brace, and every field names an entry of data
Fillable(t, data) ==
    \A n \in 1..Len(Pieces(t, 1)) :
        LET piece == Pieces(t, 1)[n]
        IN  /\ piece \notin {<<"{">>, <<"}">>}
            /\ IsField(piece) =>
                  FieldName(piece) # <<>> /\ FieldName(piece) \in DOMAIN data

RECURSIVE Expand(_, _)
Expand(pieces, data) ==
    IF pieces = <<>> THEN <<>>
    ELSE LET piece == Head(pieces)
             text == IF IsField(piece) THEN data[FieldName(piece)]
                     ELSE IF Len(piece) = 2 THEN <<piece[1]>>
                     ELSE piece
         IN  text \o Expand(Tail(pieces), data)

----------------------------------------------------------------------------
(* get_template on every file content up to MaxFlatLen *)

FlatAlphabet == {" ", "\n", "\t", "a"}

FlatPath == <<"d", "/", "a", ".", "m", "d">>

InitFlat ==
    /\ template_cache = EmptyMap
    /\ self_template = [set |-> FALSE, val |-> <<>>]
    /\ \E c \in StringsUpTo(FlatAlphabet, MaxFlatLen) :
          fs = [p \in Paths |-> IF p = FlatPath THEN File(c) ELSE NoFile]
    /\ first_load = EmptyMap
    /\ call = NoCall
    /\ ExtractIdle

NextFlat ==
    \E f \in BOOLEAN :
        get_template(FlatPath, f) /\ UNCHANGED extractVars

SpecFlat == InitFlat /\ [][NextFlat]_vars

Blank(c) == c = " " \/ c = "\n" \/ c = "\t"

\* C10: the flattening of get_template is idempotent, and a flattened string
\* has no leading or trailing whitespace and no two adjacent whitespace
\* characters.
C10_FlattenIdempotent ==
    call.op = "get" =>
        /\ Flatten(call.ret) = call.ret
        /\ call.ret # <<>> =>
              ~Blank(call.ret[1]) /\ ~Blank(call.ret[Len(call.ret)])
        /\ \A i \in 1..(Len(call.ret) - 1) :
              ~(Blank(call.ret[i]) /\ Blank(call.ret[i + 1]))

\* a content with four newlines between two words was flattened
C10_Witness ==
    /\ call.op = "get"
    /\ call.loaded = <<"a", "\n", "\n", "\n", "\n", "a">>
    /\ call.ret = <<"a", " ", "a">>

----------------------------------------------------------------------------
(* _ref_cleaner on every text of up to MaxChunks chunks *)

RefChunks ==
    { <<"\n">>, <<" ">>, <<":">>, <<"s">>,
      <<"R", "e", "f", "e", "r", "e", "n", "c", "e">>,
      <<"b", "i", "b", "l", "i", "o", "g", "r", "a", "p", "h", "y">>,
      <<"L", "i", "t", "e", "r", "a", "t", "u", "r", "e", " ", "c", "i", "t", "e", "d">>,
      <<"W", "O", "R", "K", "S", " ", "C", "I", "T", "E", "D">> }

RECURSIVE Concat(_)
Concat(chunks) ==
    IF chunks = <<>> THEN <<>> ELSE Head(chunks) \o Concat(Tail(chunks))

StoreIdle ==
    /\ template_cache = EmptyMap
    /\ self_template = [set |-> FALSE, val |-> <<>>]
    /\ fs = [p \in Paths |-> NoFile]
    /\ call = NoCall
    /\ first_load = EmptyMap

InitRef ==
    /\ StoreIdle
    /\ doc = <<>>
    /\ handles = 0
    /\ results = NoResults
    /\ \E chunks \in StringsUpTo(RefChunks, MaxChunks) :
          ecall = [NoExtract EXCEPT !.op = "pending", !.text = Concat(chunks)]

NextRef ==
    /\ ecall.op = "pending"
    /\ ref_cleaner(ecall.text)
    /\ UNCHANGED storeVars

SpecRef == InitRef /\ [][NextRef]_vars

\* header words of the reference section, in lower case
StatedHeaders ==
    { <<"r", "e", "f", "e", "r", "e", "n", "c", "e", "s">>,
      <<"b", "i", "b", "l", "i", "o", "g", "r", "a", "p", "h", "y">>,
      <<"l", "i", "t", "e", "r", "a", "t", "u", "r", "e", " ", "c", "i", "t", "e", "d">>,
      <<"w", "o", "r", "k", "s", " ", "c", "i", "t", "e", "d">> }

CodeHeaders == StatedHeaders \cup { <<"r", "e", "f", "e", "r", "e", "n", "c", "e">> }

\* a header occurs at offset o: o is the start of the text or a newline,
\* then whitespace, then the word in any case, then a colon or whitespace
OccursAt(text, word, o) ==
    /\ o = 0 \/ (o < Len(text) /\ text[o + 1] = "\n")
    /\ \E h \in o..Len(text) :
          /\ \A j \in (o + 1)..h : Blank(text[j])
          /\ h + Len(word) < Len(text)
          /\ \A j \in 1..Len(word) : Lower(text[h + j]) = word[j]
          /\ text[h + Len(word) + 1] = ":" \/ Blank(text[h + Len(word) + 1])

Occurrences(text, word) == {o \in 0..Len(text) : OccursAt(text, word, o)}

\* the smallest start offset among the first occurrences of the headers,
\* the end of the text when there is none
Boundary(text, headers) ==
    SetMin({Len(text)} \cup
           {SetMin(Occurrences(text, w)) :
               w \in {w \in headers : Occurrences(text, w) # {}}})

\* r is s without its leading and trailing whitespace
IsTrimOf(r, s) ==
    \E a \in 1..(Len(s) + 1), b \in 0..Len(s) :
        /\ \A j \in 1..(a - 1) : Blank(s[j])
        /\ \A j \in (b + 1)..Len(s) : Blank(s[j])
        /\ r = Slice(s, a, b)
        /\ r # <<>> => ~Blank(r[1]) /\ ~Blank(r[Len(r)])

Orders == {f \in [1..Len(ref_patterns) -> 1..Len(ref_patterns)] :
              \A i, j \in DOMAIN f : f[i] = f[j] => i = j}

\* trying the patterns in any order ends with min_pos
OrderIndependent(text, min_pos) ==
    LET m == Matches(ref_patterns, text)
    IN  \A f \in Orders :
            MinPosLoop([i \in 1..Len(m) |-> m[f[i]]], 1, Len(text)) = min_pos

\* C8 as stated: the truncation point is the smallest start offset among the
\* first occurrences of References, Bibliography, Literature cited and Works
\* cited, whatever the order of the patterns, the end of the text when none
\* occurs; the result is the text before it, trimmed.
C8_AsStated ==
    ecall.op = "ref_cleaner" =>
        /\ ecall.min_pos = Boundary(ecall.text, StatedHeaders)
        /\ OrderIndependent(ecall.text, ecall.min_pos)
        /\ IsTrimOf(ecall.ret, Slice(ecall.text, 1, ecall.min_pos))

\* C8 (amended): the truncation point is the smallest start offset among the
\* first occurrences of the four header patterns, Reference or References,
\* Bibliography, Literature cited and Works cited, whatever the order of the
\* patterns, the end of the text when none occurs; the result is the text
\* before it, trimmed.
C8_LeftmostWins ==
    ecall.op = "ref_cleaner" =>
        /\ ecall.min_pos = Boundary(ecall.text, CodeHeaders)
        /\ OrderIndependent(ecall.text, ecall.min_pos)
        /\ IsTrimOf(ecall.ret, Slice(ecall.text, 1, ecall.min_pos))

\* Works cited occurs before Bibliography and the text was cut there
C8_Witness ==
    /\ ecall.op = "ref_cleaner"
    /\ Occurrences(ecall.text, <<"w", "o", "r", "k", "s", " ", "c", "i", "t", "e", "d">>) # {}
    /\ Occurrences(ecall.text, <<"b", "i", "b", "l", "i", "o", "g", "r", "a", "p", "h", "y">>) # {}
    /\ ecall.min_pos = SetMin(Occurrences(ecall.text, <<"w", "o", "r", "k", "s", " ", "c", "i", "t", "e", "d">>))
    /\ ecall.min_pos < SetMin(Occurrences(ecall.text, <<"b", "i", "b", "l", "i", "o", "g", "r", "a", "p", "h", "y">>))

----------------------------------------------------------------------------
(* extract_content on every document of up to MaxPages pages *)

PageTexts ==
    { <<" ", "a", "b", "\n">>,
      <<"x", "\n", "R", "e", "f", "e", "r", "e", "n", "c", "e", "s", "\n", "f", "o", "o">>,
      <<"y", "\n", "R", "e", "f", "e", "r", "e", "n", "c", "e", " ", "l", "i", "s", "t">>,
      <<"B", "i", "b", "l", "i", "o", "g", "r", "a", "p", "h", "y", ":">>,
      <<"e-acute", "nbsp">>,
      <<"R", "e", "f", "e", "r", "e", "n", "c", "e", "s">> }

InitExtract ==
    /\ StoreIdle
    /\ doc \in StringsUpTo(PageTexts, MaxPages)
    /\ handles = 0
    /\ ecall = NoExtract
    /\ results = NoResults

NextExtract ==
    \E remove_refs \in BOOLEAN, fail_at \in -1..Len(doc) :
        extract_content(remove_refs, fail_at) /\ UNCHANGED storeVars

SpecExtract == InitExtract /\ [][NextExtract]_vars

\* C1: a document handle opened by extract_content is closed on every exit
\* path of the call, also when reading a page fails.
C1_HandleClosed ==
    ecall.op = "extract" => handles = ecall.handles_before

\* C7: a failure to open the document or to read a page makes
\* extract_content end with the error raised to the caller, and no text is
\* returned, not even that of the pages read before the failure.
C7_FailurePropagates ==
    (ecall.op = "extract" /\ ecall.fail_at >= 0) =>
        /\ ecall.raised
        /\ ~ecall.returned
        /\ ecall.ret = <<>>

\* reading the second page failed after a first page with text was read
C7_Witness ==
    /\ ecall.op = "extract"
    /\ ecall.fail_at = 2
    /\ Len(doc) = 2
    /\ doc[1] # <<>>
    /\ ecall.raised

\* a and b are equal after trimming
EqualTrimmed(a, b) ==
    \E r \in {Strip(a)} : IsTrimOf(r, a) /\ IsTrimOf(r, b)

HasHeader(text, headers) == \E w \in headers : Occurrences(text, w) # {}

\* both flags have returned a text for the document
BothExtracted == results[TRUE].has /\ results[FALSE].has

\* C9 as stated: for a document whose text contains none of References,
\* Bibliography, Literature cited, Works cited as a header, extract with
\* remove_refs equals extract without it after trimming.
C9_AsStated ==
    (BothExtracted /\ ~HasHeader(results[FALSE].text, StatedHeaders)) =>
        EqualTrimmed(results[TRUE].text, results[FALSE].text)

\* C9 (amended): for a document whose text contains none of Reference,
\* References, Bibliography, Literature cited, Works cited as a header,
\* extract with remove_refs equals extract without it after trimming.
C9_NoHeaderNoTruncation ==
    (BothExtracted /\ ~HasHeader(results[FALSE].text, CodeHeaders)) =>
        EqualTrimmed(results[TRUE].text, results[FALSE].text)

\* a document without header whose text has whitespace to trim
C9_Witness ==
    /\ BothExtracted
    /\ ~HasHeader(results[FALSE].text, CodeHeaders)
    /\ results[TRUE].text # <<>>
    /\ results[TRUE].text # results[FALSE].text
    /\ Len(doc) = 2

====
